---- MODULE Spec2Model ----
(***************************************************************************)
(* The subscription billing engine of pg-backend: the subscription,        *)
(* billing-attempt and transaction stores, the payment gateway's ledger,   *)
(* the billing worker's cycle (due subscriptions, pending attempts,        *)
(* retries) and the user operations that touch the same rows.              *)
(*                                                                         *)
(* Time is counted in minutes since 2024-01-01T00:00.  A billing cycle     *)
(* itself takes no model time; the clock moves between cycles, either by   *)
(* one ticker period or to the next instant at which a stored timestamp    *)
(* makes a row eligible.                                                   *)
(***************************************************************************)
EXTENDS Integers, Sequences, FiniteSets, TLC

VARIABLES
    now,           \* the wall clock (time.Now / CURRENT_TIMESTAMP)
    cards,         \* the ids of the rows of table cards
    subs,          \* table subscriptions: a sequence, the id is the index
    attempts,      \* table billing_attempts: a sequence, the id is the index
    transactions,  \* table transactions: a sequence of rows
    ledger,        \* the gateway's side: the charges it has approved
    pc,            \* the billing worker's position in runBillingCycle
    queue,         \* the rows the running task read at its start, not yet handled
    count,         \* processedCount / retryCount of the running task
    cardReq,       \* UpdateSubscriptionCard between its read and its write
    capacity,      \* how many rows table billing_attempts holds in this behaviour
    faultsLeft,    \* how many store calls can still fail in this behaviour
    opsLeft,       \* how many cancel/card/admin requests can still be sent
    adminReq,      \* POST /billing/process between its query and its response
    ctxDone,       \* WorkerManager.ctx is canceled
    stopChan,      \* BillingWorker.stopChan: "open" or "closed"
    wg,            \* WorkerManager.wg's counter
    tasks,         \* the goroutines StartAll launched: where each is in Start
    mainPc,        \* main's goroutine that calls StartAll: "go", then "serving"
    restartPc      \* the RestartWorkers request's position

\* The worker manager's fields and the callers of its operations
mgrVars == <<ctxDone, stopChan, wg, mainPc, restartPc>>

vars == <<now, cards, subs, attempts, transactions, ledger, pc, queue, count,
          cardReq, capacity, faultsLeft, opsLeft, adminReq, tasks, mgrVars>>

-----------------------------------------------------------------------------
(* Bounds of the model *)

MaxSubs == 1
MaxAttempts == 4
MaxFaults == 1
MaxUserOps == 1
MaxResumedAttempts == 3
MaxLiveAttempts == 2
MaxRestarts == 2

(* Program constants, in minutes *)

MinutesPerDay == 24 * 60
Lookahead == 5
RetryCooldown == 24 * 60
DueQueryLimit == 100
DueLimit == 100
PendingLimit == 50
RetryQueryLimit == 50
WorkerMaxAttempts == 3

EpochYear == 2000 + 24
LastYear == EpochYear + MaxAttempts + 2

-----------------------------------------------------------------------------
(* time.Time.AddDate on minutes since the epoch: the date is taken apart,  *)
(* the years, months and days are added, and the result is normalised as   *)
(* time.Date normalises it (October 31 plus one month is December 1).      *)

IsLeap(y) == (y % 4 = 0 /\ y % 100 # 0) \/ y % 400 = 0

DaysInYear(y) == IF IsLeap(y) THEN 366 ELSE 365

DaysInMonth(y, m) ==
    IF m \in {4, 6, 9, 11} THEN 30
    ELSE IF m = 2 THEN (IF IsLeap(y) THEN 29 ELSE 28)
    ELSE 31

RECURSIVE DaysBeforeYear(_)
DaysBeforeYear(y) ==
    IF y <= EpochYear THEN 0 ELSE DaysBeforeYear(y - 1) + DaysInYear(y - 1)

RECURSIVE DaysBeforeMonth(_, _)
DaysBeforeMonth(y, m) ==
    IF m <= 1 THEN 0 ELSE DaysBeforeMonth(y, m - 1) + DaysInMonth(y, m - 1)

YearOfDay(n) ==
    CHOOSE y \in EpochYear..LastYear :
        DaysBeforeYear(y) <= n /\ n < DaysBeforeYear(y + 1)

MonthOfDay(n) ==
    LET y == YearOfDay(n)
        r == n - DaysBeforeYear(y)
    IN  CHOOSE m \in 1..12 :
            DaysBeforeMonth(y, m) <= r /\ r < DaysBeforeMonth(y, m) + DaysInMonth(y, m)

DayOfMonth(n) ==
    LET y == YearOfDay(n)
    IN  n - DaysBeforeYear(y) - DaysBeforeMonth(y, MonthOfDay(n)) + 1

\* time.Date(y, m, d): m may exceed 12 and d the month's length
DateToDays(y, m, d) ==
    LET yy == y + ((m - 1) \div 12)
        mm == ((m - 1) % 12) + 1
    IN  DaysBeforeYear(yy) + DaysBeforeMonth(yy, mm) + (d - 1)

AddDate(t, years, months, days) ==
    LET n == t \div MinutesPerDay
    IN  DateToDays(YearOfDay(n) + years, MonthOfDay(n) + months, DayOfMonth(n) + days)
            * MinutesPerDay + (t % MinutesPerDay)

AddHours(t, h) == t + h * 60

-----------------------------------------------------------------------------
(* sql.NullTime, sql.NullString, uuid.NullUUID *)

NullTime == [Valid |-> FALSE, Time |-> 0]
SomeTime(t) == [Valid |-> TRUE, Time |-> t]
NullString == [Valid |-> FALSE, String |-> ""]
SomeString(s) == [Valid |-> TRUE, String |-> s]
NullUUID == [Valid |-> FALSE, UUID |-> "nil"]
SomeUUID(u) == [Valid |-> TRUE, UUID |-> u]

Min(a, b) == IF a <= b THEN a ELSE b

\* The prefix of a result set that LIMIT n keeps
Limit(q, n) == SubSeq(q, 1, Min(n, Len(q)))

\* The orders in which ORDER BY key ASC can return the rows S (ties in any order)
RECURSIVE OrderBy(_, _)
OrderBy(S, key) ==
    IF S = {} THEN {<<>>}
    ELSE UNION { { <<x>> \o q : q \in OrderBy(S \ {x}, key) } :
                 x \in {y \in S : \A z \in S : key[y] <= key[z]} }

-----------------------------------------------------------------------------
(* The rows the model starts from: the plans and the cards' owners are     *)
(* read-only inputs of the engine.                                         *)

Users == {"u1"}
AllCards == {"c1", "c2", "c3"}
CardOwner == [c \in AllCards |-> IF c = "c3" THEN "u2" ELSE "u1"]

Plans ==
    { [id |-> "daily", amount |-> 1000, currency |-> "LKR", interval |-> "day",
       trial_period_days |-> 0, is_active |-> TRUE],
      [id |-> "monthly", amount |-> 2500, currency |-> "USD", interval |-> "month",
       trial_period_days |-> 14, is_active |-> TRUE],
      [id |-> "retired", amount |-> 500, currency |-> "LKR", interval |-> "week",
       trial_period_days |-> 0, is_active |-> FALSE] }

\* 2024-01-17T00:00, the instant the process starts at: a trial of 14 days ends
\* on the last day of January
StartInstant == 16 * MinutesPerDay

\* What PayWithToken can return: a transport/API error, or a response
ApprovedOutcome == [err |-> FALSE, result |-> "SUCCESS", code |-> "APPROVED"]

GatewayOutcomes ==
    { [err |-> TRUE,  result |-> "",        code |-> ""],
      ApprovedOutcome,
      [err |-> FALSE, result |-> "FAILURE", code |-> "DECLINED"],
      [err |-> FALSE, result |-> "FAILURE", code |-> "card_declined"],
      [err |-> FALSE, result |-> "FAILURE", code |-> "insufficient_funds"],
      [err |-> FALSE, result |-> "FAILURE", code |-> "invalid_card"] }

PermanentDeclineCodes == {"card_declined", "insufficient_funds", "invalid_card"}

\* Which store call of an operation fails, of those it makes (points): none, or
\* one of them while the behaviour has failures left
FaultChoices(points) == {"none"} \cup (IF faultsLeft > 0 THEN points ELSE {})

Spend(fault) == faultsLeft' = IF fault = "none" THEN faultsLeft ELSE faultsLeft - 1

\* Whether the worker's store call at point succeeds: it fails when it is the
\* call chosen to fail, and every call fails once the worker's context is canceled
Ok(fault, point) == ~ctxDone /\ fault # point

\* Table billing_attempts has room for a row
HasRoom == Len(attempts) < capacity

-----------------------------------------------------------------------------
(* The stores *)

\* subscriptionRepository.UpdateSubscription: every column but id, user_id, created_at
UpdateSubscription(tbl, sub) ==
    [tbl EXCEPT ![sub.id] =
        [@ EXCEPT !.plan_id = sub.plan_id,
                  !.card_id = sub.card_id,
                  !.amount = sub.amount,
                  !.currency = sub.currency,
                  !.status = sub.status,
                  !.interval = sub.interval,
                  !.current_period_start = sub.current_period_start,
                  !.current_period_end = sub.current_period_end,
                  !.trial_start = sub.trial_start,
                  !.trial_end = sub.trial_end,
                  !.cancel_at_period_end = sub.cancel_at_period_end,
                  !.canceled_at = sub.canceled_at,
                  !.billing_cycle_anchor = sub.billing_cycle_anchor,
                  !.next_billing_at = sub.next_billing_at]]

\* An UPDATE of billing_attempts that leaves error_message out
UpdateBillingAttemptNoMessage(tbl, att) ==
    [tbl EXCEPT ![att.id] =
        [@ EXCEPT !.status = att.status,
                  !.gateway_transaction_id = att.gateway_transaction_id,
                  !.error_code = att.error_code,
                  !.attempt_number = att.attempt_number,
                  !.processed_at = att.processed_at]]

\* billingRepository.UpdateBillingAttempt: six columns of the row with the id
UpdateBillingAttempt(tbl, att) ==
    [tbl EXCEPT ![att.id] =
        [@ EXCEPT !.status = att.status,
                  !.gateway_transaction_id = att.gateway_transaction_id,
                  !.error_code = att.error_code,
                  !.error_message = att.error_message,
                  !.attempt_number = att.attempt_number,
                  !.processed_at = att.processed_at]]

\* A store write that can fail: the table after it
Written(ok, tbl, after) == IF ok THEN after ELSE tbl

\* The WHERE clause without its condition on trial_end
DueForBillingDuringTrial(sub, cutoffTime) ==
    /\ sub.status \in {"active", "trialing"}
    /\ sub.cancel_at_period_end = FALSE
    /\ sub.next_billing_at <= cutoffTime

\* subscriptionRepository.GetSubscriptionsDueForBilling: the WHERE clause
DueForBilling(sub, cutoffTime) ==
    /\ sub.status \in {"active", "trialing"}
    /\ sub.cancel_at_period_end = FALSE
    /\ sub.next_billing_at <= cutoffTime
    /\ (~sub.trial_end.Valid \/ sub.trial_end.Time <= now)

\* The due list without its ORDER BY: the rows in any order
GetSubscriptionsDueForBillingUnordered(cutoffTime) ==
    LET ids == {i \in DOMAIN subs : DueForBilling(subs[i], cutoffTime)}
        key == [i \in ids |-> 0]
    IN  { [k \in DOMAIN q |-> subs[q[k]]] :
          q \in { Limit(o, DueQueryLimit) : o \in OrderBy(ids, key) } }

\* ... and the result sets it can return (ORDER BY next_billing_at ASC LIMIT 100)
GetSubscriptionsDueForBilling(cutoffTime) ==
    LET ids == {i \in DOMAIN subs : DueForBilling(subs[i], cutoffTime)}
        key == [i \in ids |-> subs[i].next_billing_at]
    IN  { [k \in DOMAIN q |-> subs[q[k]]] :
          q \in { Limit(o, DueQueryLimit) : o \in OrderBy(ids, key) } }

\* billingRepository.GetPendingBillingAttempts: the WHERE clause
PendingNow(att) ==
    /\ att.status \in {"pending", "requires_action"}
    /\ att.scheduled_at <= now

GetPendingBillingAttempts(limit) ==
    LET ids == {i \in DOMAIN attempts : PendingNow(attempts[i])}
        key == [i \in ids |-> attempts[i].scheduled_at]
    IN  { [k \in DOMAIN q |-> attempts[q[k]]] :
          q \in { Limit(o, limit) : o \in OrderBy(ids, key) } }

\* The WHERE clause without its condition on error_code
FailedForRetryAnyCode(att, maxAttempts, olderThan) ==
    /\ att.status = "failed"
    /\ att.attempt_number < maxAttempts
    /\ att.processed_at.Valid /\ att.processed_at.Time < olderThan

\* billingRepository.GetFailedBillingAttemptsForRetry: the WHERE clause.  A NULL
\* processed_at or error_code makes its comparison NULL, and the row is left out.
FailedForRetry(att, maxAttempts, olderThan) ==
    /\ att.status = "failed"
    /\ att.attempt_number < maxAttempts
    /\ att.processed_at.Valid /\ att.processed_at.Time < olderThan
    /\ att.error_code.Valid /\ att.error_code.String \notin PermanentDeclineCodes

GetFailedBillingAttemptsForRetry(maxAttempts, olderThan) ==
    LET ids == {i \in DOMAIN attempts : FailedForRetry(attempts[i], maxAttempts, olderThan)}
        key == [i \in ids |-> attempts[i].processed_at.Time]
    IN  { [k \in DOMAIN q |-> attempts[q[k]]] :
          q \in { Limit(o, RetryQueryLimit) : o \in OrderBy(ids, key) } }

\* subscriptionService.calculateNextBillingDate
calculateNextBillingDate(from, interval) ==
    CASE interval = "day"   -> AddDate(from, 0, 0, 1)
      [] interval = "week"  -> AddDate(from, 0, 0, 7)
      [] interval = "month" -> AddDate(from, 0, 1, 0)
      [] interval = "year"  -> AddDate(from, 1, 0, 0)
      [] OTHER              -> AddDate(from, 0, 1, 0)

\* The check of the payment result, in both billing paths
Approved(resp) == resp.result = "SUCCESS" /\ resp.code = "APPROVED"

\* The gateway's record of a charge it approved
Charge(att, sub) ==
    [txid |-> Len(ledger) + 1, att |-> att.id, sub |-> sub.id, cycle |-> att.cycle]

\* The row CreateSubscriptionTransaction inserts
TransactionRow(sub, att, txid) ==
    [user_id |-> sub.user_id, card_id |-> sub.card_id.UUID,
     subscription_id |-> sub.id, billing_attempt_id |-> att.id,
     amount |-> att.amount, currency |-> att.currency,
     gateway_transaction_id |-> txid, type |-> "recurring"]

-----------------------------------------------------------------------------
Init ==
    /\ now = StartInstant
    /\ cards = AllCards
    /\ subs = <<>>
    /\ attempts = <<>>
    /\ transactions = <<>>
    /\ ledger = <<>>
    /\ pc = "idle"
    /\ queue = <<>>
    /\ count = 0
    /\ cardReq = <<>>
    /\ capacity = MaxAttempts
    /\ faultsLeft = 0
    /\ opsLeft = 0
    /\ adminReq = <<>>
    /\ ctxDone = FALSE
    /\ stopChan = "open"
    /\ wg = 0
    /\ tasks = <<>>
    /\ mainPc = "go"
    /\ restartPc = "none"

-----------------------------------------------------------------------------
(* The operations of the HTTP API that write the engine's rows *)

\* The first BillingAttempt of a subscription without a trial
InitialAttempt(sub, plan) ==
    [id |-> Len(attempts) + 1, subscription_id |-> sub.id,
     amount |-> plan.amount, currency |-> plan.currency,
     status |-> "pending", gateway_transaction_id |-> NullString,
     error_code |-> NullString, error_message |-> NullString,
     attempt_number |-> 1, scheduled_at |-> now, processed_at |-> NullTime,
     cycle |-> now]

\* Steps 4 and 5 with the first billing of a trial counted from the creation
NewSubscriptionBilledInTrial(userID, plan, cardID) ==
    LET base == [id |-> Len(subs) + 1, user_id |-> userID,
                 plan_id |-> SomeUUID(plan.id), card_id |-> SomeUUID(cardID),
                 amount |-> plan.amount, currency |-> plan.currency,
                 status |-> "active", interval |-> plan.interval,
                 current_period_start |-> NullTime, current_period_end |-> NullTime,
                 trial_start |-> NullTime, trial_end |-> NullTime,
                 cancel_at_period_end |-> FALSE, canceled_at |-> NullTime,
                 billing_cycle_anchor |-> NullTime,
                 next_billing_at |-> 0, created_at |-> now]
    IN  IF plan.trial_period_days > 0
        THEN [base EXCEPT !.status = "trialing",
                          !.trial_start = SomeTime(now),
                          !.trial_end = SomeTime(AddDate(now, 0, 0, plan.trial_period_days)),
                          !.next_billing_at = calculateNextBillingDate(now, plan.interval)]
        ELSE [base EXCEPT !.current_period_start = SomeTime(now),
                          !.billing_cycle_anchor = SomeTime(now),
                          !.next_billing_at = calculateNextBillingDate(now, plan.interval),
                          !.current_period_end =
                              SomeTime(calculateNextBillingDate(now, plan.interval))]

\* The subscription CreateSubscription builds (steps 4 and 5)
NewSubscription(userID, plan, cardID) ==
    LET base == [id |-> Len(subs) + 1, user_id |-> userID,
                 plan_id |-> SomeUUID(plan.id), card_id |-> SomeUUID(cardID),
                 amount |-> plan.amount, currency |-> plan.currency,
                 status |-> "active", interval |-> plan.interval,
                 current_period_start |-> NullTime, current_period_end |-> NullTime,
                 trial_start |-> NullTime, trial_end |-> NullTime,
                 cancel_at_period_end |-> FALSE, canceled_at |-> NullTime,
                 billing_cycle_anchor |-> NullTime,
                 next_billing_at |-> 0, created_at |-> now]
    IN  IF plan.trial_period_days > 0
        THEN [base EXCEPT !.status = "trialing",
                          !.trial_start = SomeTime(now),
                          !.trial_end = SomeTime(AddDate(now, 0, 0, plan.trial_period_days)),
                          !.next_billing_at = AddDate(now, 0, 0, plan.trial_period_days)]
        ELSE [base EXCEPT !.current_period_start = SomeTime(now),
                          !.billing_cycle_anchor = SomeTime(now),
                          !.next_billing_at = calculateNextBillingDate(now, plan.interval),
                          !.current_period_end =
                              SomeTime(calculateNextBillingDate(now, plan.interval))]

\* subscriptionService.CreateSubscription.  A request it rejects changes nothing.
CreateSubscription(userID, plan, cardID, attOk) ==
    /\ Len(subs) < MaxSubs
    /\ plan.trial_period_days = 0 => HasRoom
    /\ plan.is_active
    /\ cardID \in cards /\ CardOwner[cardID] = userID
    /\ ~\E i \in DOMAIN subs :
           /\ subs[i].user_id = userID /\ subs[i].status = "active"
           /\ subs[i].plan_id = SomeUUID(plan.id)
    /\ LET sub == NewSubscription(userID, plan, cardID)
       IN  /\ subs' = Append(subs, sub)
           /\ attempts' = IF plan.trial_period_days = 0 /\ attOk
                          THEN Append(attempts, InitialAttempt(sub, plan))
                          ELSE attempts
    /\ UNCHANGED <<adminReq, tasks, mgrVars, now, cards, capacity, transactions, ledger, pc, queue, count, cardReq, opsLeft>>

\* subscriptionRepository.CancelSubscription: one UPDATE
CancelSubscription(id, cancelAtPeriodEnd) ==
    /\ id \in DOMAIN subs
    /\ subs' = [subs EXCEPT ![id] =
                   [@ EXCEPT !.status = IF cancelAtPeriodEnd THEN @ ELSE "canceled",
                             !.cancel_at_period_end = cancelAtPeriodEnd,
                             !.canceled_at = IF cancelAtPeriodEnd THEN @ ELSE SomeTime(now)]]
    /\ opsLeft > 0 /\ opsLeft' = opsLeft - 1
    /\ UNCHANGED <<adminReq, tasks, mgrVars, now, cards, capacity, attempts, transactions, ledger, pc, queue, count,
                   cardReq, faultsLeft>>

\* subscriptionService.UpdateSubscriptionCard, steps 1 and 2: the subscription and
\* the card are read and the card is checked
UpdateSubscriptionCardRead(id, cardID) ==
    /\ cardReq = <<>>
    /\ id \in DOMAIN subs
    /\ cardID \in cards /\ CardOwner[cardID] = subs[id].user_id
    /\ cardReq' = <<[subscription |-> subs[id], cardID |-> cardID]>>
    /\ opsLeft > 0 /\ opsLeft' = opsLeft - 1
    /\ UNCHANGED <<adminReq, tasks, mgrVars, now, cards, capacity, subs, attempts, transactions, ledger, pc, queue, count,
                   faultsLeft>>

\* ... step 3: the subscription that was read is written back with the new card
UpdateSubscriptionCardWrite(ok) ==
    /\ cardReq # <<>>
    /\ LET subscription == [cardReq[1].subscription EXCEPT
                                !.card_id = SomeUUID(cardReq[1].cardID)]
       IN  subs' = Written(ok, subs, UpdateSubscription(subs, subscription))
    /\ cardReq' = <<>>
    /\ UNCHANGED <<adminReq, tasks, mgrVars, now, cards, capacity, attempts, transactions, ledger, pc, queue, count, opsLeft>>

\* cardRepository.DeleteCard
DeleteCard(cardID) ==
    /\ cardID \in cards
    /\ cards' = cards \ {cardID}
    /\ opsLeft > 0 /\ opsLeft' = opsLeft - 1
    /\ UNCHANGED <<adminReq, tasks, mgrVars, now, capacity, subs, attempts, transactions, ledger, pc, queue, count,
                   cardReq, faultsLeft>>

-----------------------------------------------------------------------------
(* The clock *)

\* The instants at which a stored timestamp changes what a query returns
EventInstants ==
    UNION { {subs[i].next_billing_at - Lookahead}
            \cup (IF subs[i].trial_end.Valid THEN {subs[i].trial_end.Time} ELSE {})
            : i \in DOMAIN subs }
    \cup UNION { {attempts[a].scheduled_at}
                 \cup (IF attempts[a].processed_at.Valid
                       THEN {attempts[a].processed_at.Time + RetryCooldown + 1}
                       ELSE {})
                 : a \in DOMAIN attempts }

\* Time passes while the worker waits for its ticker
AdvanceClock ==
    /\ pc = "idle"
    /\ \E t \in EventInstants : t > now /\ now' = t
    /\ UNCHANGED <<adminReq, tasks, mgrVars, cards, capacity, subs, attempts, transactions,
                   ledger, pc, queue, count, cardReq, faultsLeft, opsLeft>>

-----------------------------------------------------------------------------
(* Task 1 of the billing cycle: subscriptionService.ProcessDueSubscriptions *)

\* The BillingAttempt processSingleSubscription creates (step 1).  cycle is not a
\* column: it records the billing boundary the attempt is for.
DueAttempt(subscription) ==
    [id |-> Len(attempts) + 1, subscription_id |-> subscription.id,
     amount |-> subscription.amount, currency |-> subscription.currency,
     status |-> "processing", gateway_transaction_id |-> NullString,
     error_code |-> NullString, error_message |-> NullString,
     attempt_number |-> 1, scheduled_at |-> now, processed_at |-> SomeTime(now),
     cycle |-> subscription.next_billing_at]

\* Step 7: the subscription's dates for the next billing, and past_due back to active
AdvanceSubscription(subscription) ==
    LET next == calculateNextBillingDate(subscription.next_billing_at,
                                         subscription.interval)
    IN  [subscription EXCEPT
            !.current_period_start = SomeTime(subscription.next_billing_at),
            !.next_billing_at = next,
            !.current_period_end = SomeTime(next),
            !.status = IF @ = "past_due" THEN "active" ELSE @]

\* The attempt marked failed with the code and the message in each other's column
FailedAttemptSwapped(att, code, message) ==
    [att EXCEPT !.status = "failed", !.error_code = message, !.error_message = code]

\* The attempt as the billing paths mark it failed
FailedAttempt(att, code, message) ==
    [att EXCEPT !.status = "failed", !.error_code = code, !.error_message = message]

\* The attempt as the billing paths mark it succeeded
SucceededAttempt(att, txid) ==
    [att EXCEPT !.status = "succeeded",
                !.gateway_transaction_id = SomeString(txid)]

\* A declined charge that ends the subscription
GivenUpSubscription(subscription) ==
    [subscription EXCEPT !.status = "unpaid"]

\* The subscription as the due path stores it after a declined charge
DeclinedSubscription(subscription) ==
    [subscription EXCEPT !.status = "past_due"]

\* processSingleSubscription that takes the charge back when the Transaction is
\* not saved: the attempt is failed and the subscription is not advanced
processSingleSubscriptionRollback(subscription, createOk, gw, attOk, txnOk, subOk) ==
    LET billingAttempt == DueAttempt(subscription)
        created == Append(attempts, billingAttempt)
        charge == Charge(billingAttempt, subscription)
    IN  IF ~createOk
        THEN /\ UNCHANGED <<subs, attempts, transactions, ledger>>
             /\ count' = count
        ELSE IF subscription.card_id.UUID \notin cards
        THEN /\ attempts' = Written(attOk, created, UpdateBillingAttempt(created,
                    FailedAttempt(billingAttempt, NullString,
                                  SomeString("Card not found"))))
             /\ UNCHANGED <<subs, transactions, ledger>>
             /\ count' = count
        ELSE IF gw.err
        THEN /\ attempts' = Written(attOk, created, UpdateBillingAttempt(created,
                    FailedAttempt(billingAttempt, NullString,
                                  SomeString("transport error"))))
             /\ UNCHANGED <<subs, transactions, ledger>>
             /\ count' = count
        ELSE IF ~Approved(gw)
        THEN /\ attempts' = Written(attOk, created, UpdateBillingAttempt(created,
                    FailedAttempt(billingAttempt, SomeString(gw.code),
                                  SomeString(gw.result))))
             /\ subs' = IF subscription.status = "active"
                        THEN Written(subOk, subs,
                                 UpdateSubscription(subs, DeclinedSubscription(subscription)))
                        ELSE subs
             /\ UNCHANGED <<transactions, ledger>>
             /\ count' = count
        ELSE /\ ledger' = Append(ledger, charge)
             /\ IF ~attOk
                THEN /\ attempts' = created
                     /\ UNCHANGED <<subs, transactions>>
                     /\ count' = count
                ELSE IF ~txnOk
                THEN /\ attempts' = UpdateBillingAttempt(created,
                            FailedAttempt(billingAttempt, NullString,
                                          SomeString("transaction not saved")))
                     /\ UNCHANGED <<subs, transactions>>
                     /\ count' = count
                ELSE /\ attempts' = UpdateBillingAttempt(created,
                            SucceededAttempt(billingAttempt, charge.txid))
                     /\ transactions' = Append(transactions,
                            TransactionRow(subscription, billingAttempt, charge.txid))
                     /\ subs' = Written(subOk, subs,
                            UpdateSubscription(subs, AdvanceSubscription(subscription)))
                     /\ count' = IF subOk THEN count + 1 ELSE count

\* subscriptionService.processSingleSubscription on one row of the due list.
\* createOk, attOk, txnOk, subOk: whether the store calls succeed; gw: what the
\* gateway answers.  done: whether the call returns nil.
processSingleSubscription(subscription, createOk, gw, attOk, txnOk, subOk) ==
    LET billingAttempt == DueAttempt(subscription)
        created == Append(attempts, billingAttempt)
        charge == Charge(billingAttempt, subscription)
    IN  IF ~createOk
        THEN /\ UNCHANGED <<subs, attempts, transactions, ledger>>
             /\ count' = count
        ELSE IF subscription.card_id.UUID \notin cards
        THEN /\ attempts' = Written(attOk, created, UpdateBillingAttempt(created,
                    FailedAttempt(billingAttempt, NullString,
                                  SomeString("Card not found"))))
             /\ UNCHANGED <<subs, transactions, ledger>>
             /\ count' = count
        ELSE IF gw.err
        THEN /\ attempts' = Written(attOk, created, UpdateBillingAttempt(created,
                    FailedAttempt(billingAttempt, NullString,
                                  SomeString("transport error"))))
             /\ UNCHANGED <<subs, transactions, ledger>>
             /\ count' = count
        ELSE IF ~Approved(gw)
        THEN /\ attempts' = Written(attOk, created, UpdateBillingAttempt(created,
                    FailedAttempt(billingAttempt, SomeString(gw.code),
                                  SomeString(gw.result))))
             /\ subs' = IF subscription.status = "active"
                        THEN Written(subOk, subs,
                                 UpdateSubscription(subs, DeclinedSubscription(subscription)))
                        ELSE subs
             /\ UNCHANGED <<transactions, ledger>>
             /\ count' = count
        ELSE /\ ledger' = Append(ledger, charge)
             /\ IF ~attOk
                THEN /\ attempts' = created
                     /\ UNCHANGED <<subs, transactions>>
                     /\ count' = count
                ELSE /\ attempts' = UpdateBillingAttempt(created,
                            SucceededAttempt(billingAttempt, charge.txid))
                     /\ transactions' = Written(txnOk, transactions,
                            Append(transactions,
                                   TransactionRow(subscription, billingAttempt, charge.txid)))
                     /\ subs' = Written(subOk, subs,
                            UpdateSubscription(subs, AdvanceSubscription(subscription)))
                     /\ count' = IF subOk THEN count + 1 ELSE count

\* BillingWorker.Start calls runBillingCycle: a goroutine that has just entered
\* Start, or one whose select takes the ticker's case
runBillingCycle ==
    \E k \in DOMAIN tasks :
        /\ tasks[k] \in {"start", "select"}
        /\ tasks' = [tasks EXCEPT ![k] = "cycle"]

\* The cycle's first task: ProcessDueSubscriptions reads the due list; a failed
\* query ends the task
ProcessDueSubscriptions ==
    /\ pc = "idle"
    /\ runBillingCycle
    /\ pc' = "due"
    /\ count' = 0
    /\ \E fault \in FaultChoices({"query"}) :
          /\ queue' \in IF Ok(fault, "query")
                        THEN GetSubscriptionsDueForBilling(now + Lookahead)
                        ELSE {<<>>}
          /\ Spend(fault)
    /\ UNCHANGED <<adminReq, mgrVars, now, cards, capacity, subs, attempts, transactions, ledger, cardReq, opsLeft>>

\* One turn of its loop, the gateway answering gw: the next row, and the break at
\* limit
DueCharge(limit, gw) ==
    /\ pc = "due"
    /\ queue # <<>>
    /\ \E fault \in FaultChoices({"create", "attempt", "transaction", "subscription"}) :
          /\ Ok(fault, "create") => HasRoom
          /\ processSingleSubscription(Head(queue), Ok(fault, "create"), gw,
                 Ok(fault, "attempt"), Ok(fault, "transaction"),
                 Ok(fault, "subscription"))
          /\ Spend(fault)
    /\ queue' = IF count' > count /\ count' >= limit THEN <<>> ELSE Tail(queue)
    /\ UNCHANGED <<adminReq, tasks, mgrVars, now, cards, capacity, pc, cardReq, opsLeft>>

DueItem(limit) == \E gw \in GatewayOutcomes : DueCharge(limit, gw)

-----------------------------------------------------------------------------
(* Task 2: billingService.ProcessPendingBillingAttempts *)

\* processBillingAttempt with a look at the stored row first: a row that is no
\* longer pending is left alone
processBillingAttemptChecked(row, markOk, getOk, cardOk, gw, attOk, txnOk) ==
    LET attempt == [row EXCEPT !.status = "processing",
                               !.processed_at = SomeTime(now)]
        marked == UpdateBillingAttempt(attempts, attempt)
        subscription == subs[attempt.subscription_id]
        charge == Charge(attempt, subscription)
    IN  IF ~markOk \/ attempts[row.id].status \notin {"pending", "requires_action"}
        THEN UNCHANGED <<attempts, transactions, ledger>>
        ELSE IF ~getOk \/ ~cardOk \/ subscription.card_id.UUID \notin cards \/ gw.err
        THEN /\ attempts' = Written(attOk, marked, UpdateBillingAttempt(marked,
                    FailedAttempt(attempt, row.error_code, SomeString("failed"))))
             /\ UNCHANGED <<transactions, ledger>>
        ELSE IF ~Approved(gw)
        THEN /\ attempts' = Written(attOk, marked, UpdateBillingAttempt(marked,
                    FailedAttempt(attempt, SomeString(gw.code),
                                  SomeString(gw.result))))
             /\ UNCHANGED <<transactions, ledger>>
        ELSE /\ ledger' = Append(ledger, charge)
             /\ attempts' = Written(attOk, marked, UpdateBillingAttempt(marked,
                    SucceededAttempt(attempt, charge.txid)))
             /\ transactions' = Written(attOk /\ txnOk, transactions,
                    Append(transactions,
                           TransactionRow(subscription, attempt, charge.txid)))

\* billingService.processBillingAttempt on one row of the pending list: what it
\* does to the stores and the gateway.  markOk, getOk, cardOk, attOk, txnOk:
\* whether the first UPDATE, GetSubscriptionByID, GetCardByID, the last UPDATE
\* and the INSERT of the transaction succeed
processBillingAttempt(row, markOk, getOk, cardOk, gw, attOk, txnOk) ==
    LET attempt == [row EXCEPT !.status = "processing",
                               !.processed_at = SomeTime(now)]
        marked == UpdateBillingAttempt(attempts, attempt)
        subscription == subs[attempt.subscription_id]
        charge == Charge(attempt, subscription)
    IN  IF ~markOk
        THEN UNCHANGED <<attempts, transactions, ledger>>
        ELSE IF ~getOk
        THEN /\ attempts' = Written(attOk, marked, UpdateBillingAttempt(marked,
                    FailedAttempt(attempt, row.error_code,
                                  SomeString("Subscription not found"))))
             /\ UNCHANGED <<transactions, ledger>>
        ELSE IF ~cardOk \/ subscription.card_id.UUID \notin cards
        THEN /\ attempts' = Written(attOk, marked, UpdateBillingAttempt(marked,
                    FailedAttempt(attempt, row.error_code,
                                  SomeString("Card not found"))))
             /\ UNCHANGED <<transactions, ledger>>
        ELSE IF gw.err
        THEN /\ attempts' = Written(attOk, marked, UpdateBillingAttempt(marked,
                    FailedAttempt(attempt, row.error_code,
                                  SomeString("transport error"))))
             /\ UNCHANGED <<transactions, ledger>>
        ELSE IF ~Approved(gw)
        THEN /\ attempts' = Written(attOk, marked, UpdateBillingAttempt(marked,
                    FailedAttempt(attempt, SomeString(gw.code),
                                  SomeString(gw.result))))
             /\ UNCHANGED <<transactions, ledger>>
        ELSE /\ ledger' = Append(ledger, charge)
             /\ IF ~attOk
                THEN /\ attempts' = marked
                     /\ UNCHANGED transactions
                ELSE /\ attempts' = UpdateBillingAttempt(marked,
                            SucceededAttempt(attempt, charge.txid))
                     /\ transactions' = Written(txnOk, transactions,
                            Append(transactions,
                                   TransactionRow(subscription, attempt, charge.txid)))

\* ... and whether it returns nil (the caller then counts the row as processed)
processBillingAttemptNil(row, markOk, getOk, cardOk, gw, attOk) ==
    /\ markOk /\ getOk /\ cardOk
    /\ subs[row.subscription_id].card_id.UUID \in cards
    /\ ~gw.err /\ Approved(gw)
    /\ attOk

\* The due loop has ended; ProcessPendingBillingAttempts reads the pending list
ProcessPendingBillingAttempts(limit) ==
    /\ pc = "due"
    /\ queue = <<>>
    /\ pc' = "pending"
    /\ count' = 0
    /\ \E fault \in FaultChoices({"query"}) :
          /\ queue' \in IF Ok(fault, "query") THEN GetPendingBillingAttempts(limit)
                        ELSE {<<>>}
          /\ Spend(fault)
    /\ UNCHANGED <<adminReq, tasks, mgrVars, now, cards, capacity, subs, attempts, transactions, ledger, cardReq, opsLeft>>

\* A turn of the pending loop that also advances the subscription when the
\* charge is approved and stored
PendingChargeAdvancing(gw) ==
    /\ pc = "pending"
    /\ queue # <<>>
    /\ \E fault \in FaultChoices({"mark", "get", "card", "attempt", "transaction"}) :
          /\ processBillingAttempt(Head(queue), Ok(fault, "mark"), Ok(fault, "get"),
                 Ok(fault, "card"), gw, Ok(fault, "attempt"), Ok(fault, "transaction"))
          /\ IF processBillingAttemptNil(Head(queue), Ok(fault, "mark"),
                    Ok(fault, "get"), Ok(fault, "card"), gw, Ok(fault, "attempt"))
             THEN /\ count' = count + 1
                  /\ subs' = UpdateSubscription(subs,
                                 AdvanceSubscription(subs[Head(queue).subscription_id]))
             ELSE /\ count' = count
                  /\ subs' = subs
          /\ Spend(fault)
    /\ queue' = Tail(queue)
    /\ UNCHANGED <<adminReq, tasks, mgrVars, now, cards, capacity, pc, cardReq, opsLeft>>

\* One turn of its loop, the gateway answering gw
PendingCharge(gw) ==
    /\ pc = "pending"
    /\ queue # <<>>
    /\ \E fault \in FaultChoices({"mark", "get", "card", "attempt", "transaction"}) :
          /\ processBillingAttempt(Head(queue), Ok(fault, "mark"), Ok(fault, "get"),
                 Ok(fault, "card"), gw, Ok(fault, "attempt"), Ok(fault, "transaction"))
          /\ count' = IF processBillingAttemptNil(Head(queue), Ok(fault, "mark"),
                              Ok(fault, "get"), Ok(fault, "card"), gw,
                              Ok(fault, "attempt"))
                       THEN count + 1 ELSE count
          /\ Spend(fault)
    /\ queue' = Tail(queue)
    /\ UNCHANGED <<adminReq, tasks, mgrVars, now, cards, capacity, subs, pc, cardReq, opsLeft>>

PendingItem == \E gw \in GatewayOutcomes : PendingCharge(gw)

-----------------------------------------------------------------------------
(* Task 3: subscriptionService.RetryFailedBilling *)

\* The switch on attempt.AttemptNumber: the ordinals that get a retry ...
HasRetry(attemptNumber) == attemptNumber \in {1, 2, 3}

\* ... and retryDelay, in hours
retryDelay(attemptNumber) ==
    CASE attemptNumber = 1 -> 0
      [] attemptNumber = 2 -> 72
      [] attemptNumber = 3 -> 168

\* The check "subscription is still active"
StillActive(subscription) == subscription.status \in {"active", "past_due"}

\* A retry that is built from the subscription and keeps the failed ordinal
RetryAttemptRebuilt(attempt) ==
    [id |-> Len(attempts) + 1, subscription_id |-> attempt.subscription_id,
     amount |-> subs[attempt.subscription_id].amount,
     currency |-> subs[attempt.subscription_id].currency,
     status |-> "pending", gateway_transaction_id |-> NullString,
     error_code |-> NullString, error_message |-> NullString,
     attempt_number |-> attempt.attempt_number,
     scheduled_at |-> AddHours(now, retryDelay(attempt.attempt_number)),
     processed_at |-> NullTime,
     cycle |-> attempt.cycle]

\* newAttempt; cycle is the failed attempt's
RetryAttempt(attempt) ==
    [id |-> Len(attempts) + 1, subscription_id |-> attempt.subscription_id,
     amount |-> attempt.amount, currency |-> attempt.currency,
     status |-> "pending", gateway_transaction_id |-> NullString,
     error_code |-> NullString, error_message |-> NullString,
     attempt_number |-> attempt.attempt_number + 1,
     scheduled_at |-> AddHours(now, retryDelay(attempt.attempt_number)),
     processed_at |-> NullTime,
     cycle |-> attempt.cycle]

\* A loop body that puts a past_due subscription back to active
retryOneReactivating(attempt, createOk, subOk) ==
    LET subscription == subs[attempt.subscription_id]
    IN  IF ~createOk
        THEN /\ UNCHANGED <<subs, attempts>>
             /\ count' = count
        ELSE /\ attempts' = Append(attempts, RetryAttempt(attempt))
             /\ subs' = IF attempt.attempt_number = 1
                        THEN Written(subOk, subs, UpdateSubscription(subs,
                                 [subscription EXCEPT !.status =
                                     IF @ = "active" THEN "past_due" ELSE "active"]))
                        ELSE subs
             /\ count' = count + 1

\* The loop body of RetryFailedBilling on one row of the failed list
retryOne(attempt, createOk, subOk) ==
    LET subscription == subs[attempt.subscription_id]
    IN  IF ~createOk
        THEN /\ UNCHANGED <<subs, attempts>>
             /\ count' = count
        ELSE /\ attempts' = Append(attempts, RetryAttempt(attempt))
             /\ subs' = IF attempt.attempt_number = 1 /\ subscription.status = "active"
                        THEN Written(subOk, subs,
                                 UpdateSubscription(subs, DeclinedSubscription(subscription)))
                        ELSE subs
             /\ count' = count + 1

\* A cycle that ends when the second task is over and the query of the third fails
RetryFailedBillingEndsCycle(maxAttempts) ==
    /\ pc = "pending"
    /\ queue = <<>>
    /\ count' = 0
    /\ \E fault \in FaultChoices({"query"}) :
          /\ pc' = IF Ok(fault, "query") THEN "retry" ELSE "idle"
          /\ queue' \in IF Ok(fault, "query")
                        THEN GetFailedBillingAttemptsForRetry(maxAttempts,
                                                              now - RetryCooldown)
                        ELSE {<<>>}
          /\ Spend(fault)
    /\ UNCHANGED <<adminReq, tasks, mgrVars, now, cards, capacity, subs, attempts, transactions, ledger, cardReq, opsLeft>>

\* The pending loop has ended; RetryFailedBilling reads the failed list
RetryFailedBilling(maxAttempts) ==
    /\ pc = "pending"
    /\ queue = <<>>
    /\ pc' = "retry"
    /\ count' = 0
    /\ \E fault \in FaultChoices({"query"}) :
          /\ queue' \in IF Ok(fault, "query")
                        THEN GetFailedBillingAttemptsForRetry(maxAttempts,
                                                              now - RetryCooldown)
                        ELSE {<<>>}
          /\ Spend(fault)
    /\ UNCHANGED <<adminReq, tasks, mgrVars, now, cards, capacity, subs, attempts, transactions, ledger, cardReq, opsLeft>>

\* One turn of its loop
RetryItem ==
    /\ pc = "retry"
    /\ queue # <<>>
    /\ LET attempt == Head(queue)
       IN  IF StillActive(subs[attempt.subscription_id])
              /\ HasRetry(attempt.attempt_number)
           THEN \E fault \in FaultChoices({"create", "subscription"}) :
                       /\ Ok(fault, "create") => HasRoom
                       /\ retryOne(attempt, Ok(fault, "create"),
                                   Ok(fault, "subscription"))
                       /\ Spend(fault)
           ELSE UNCHANGED <<subs, attempts, count, faultsLeft>>
    /\ queue' = Tail(queue)
    /\ UNCHANGED <<adminReq, tasks, mgrVars, now, cards, capacity, transactions, ledger, pc, cardReq, opsLeft>>

\* runBillingCycle returns; the worker waits for its ticker
CycleDone ==
    /\ pc = "retry"
    /\ queue = <<>>
    /\ pc' = "idle"
    /\ count' = 0
    /\ tasks' = [k \in DOMAIN tasks |-> IF tasks[k] = "cycle" THEN "select" ELSE tasks[k]]
    /\ UNCHANGED <<adminReq, mgrVars, now, cards, capacity, subs, attempts, transactions, ledger, queue, cardReq,
                   faultsLeft, opsLeft>>

-----------------------------------------------------------------------------
(* The worker's goroutines and the worker manager *)

\* Everything but the goroutines and the manager's fields
storeVars == <<now, cards, subs, attempts, transactions, ledger, pc, queue, count,
               cardReq, capacity, faultsLeft, adminReq>>

\* WorkerManager.StartAll, with the one worker main registers: the wait group is
\* incremented and a goroutine that calls Start(m.ctx) is launched
StartAll ==
    /\ wg' = wg + 1
    /\ tasks' = Append(tasks, "start")

\* main's goroutine calls StartAll
MainStartAll ==
    /\ mainPc = "go"
    /\ mainPc' = "serving"
    /\ StartAll
    /\ UNCHANGED <<storeVars, opsLeft, ctxDone, stopChan, restartPc>>

\* A Start that returns from its select with neither signal
StartReturnsUnsignalled ==
    /\ \E k \in DOMAIN tasks :
          /\ tasks[k] = "select"
          /\ tasks' = [tasks EXCEPT ![k] = "returned"]
    /\ wg' = wg - 1
    /\ UNCHANGED <<storeVars, opsLeft, ctxDone, stopChan, mainPc, restartPc>>

\* BillingWorker.Start: the select takes the case of ctx.Done() or of stopChan
\* and Start returns; the goroutine's deferred wg.Done() runs
StartReturns ==
    /\ \E k \in DOMAIN tasks :
          /\ tasks[k] = "select"
          /\ ctxDone \/ stopChan = "closed"
          /\ tasks' = [tasks EXCEPT ![k] = "returned"]
    /\ wg' = wg - 1
    /\ UNCHANGED <<storeVars, opsLeft, ctxDone, stopChan, mainPc, restartPc>>

\* RestartWorkers calls StopAll, which cancels the manager's context
StopAllCancel ==
    /\ restartPc \in {"none", "done", "panicked"}
    /\ opsLeft > 0 /\ opsLeft' = opsLeft - 1
    /\ ctxDone' = TRUE
    /\ restartPc' = "wait"
    /\ UNCHANGED <<storeVars, stopChan, wg, tasks, mainPc>>

\* ... m.wg.Wait() returns when the counter is zero
StopAllWait ==
    /\ restartPc = "wait"
    /\ wg = 0
    /\ restartPc' = "sleep"
    /\ UNCHANGED <<storeVars, opsLeft, ctxDone, stopChan, wg, tasks, mainPc>>

\* ... after its sleep, worker.Stop() closes stopChan and StopAll returns; the
\* close of a closed channel panics
StopAllStop ==
    /\ restartPc = "sleep"
    /\ IF stopChan = "open"
       THEN stopChan' = "closed" /\ restartPc' = "stopped"
       ELSE stopChan' = stopChan /\ restartPc' = "panicked"
    /\ UNCHANGED <<storeVars, opsLeft, ctxDone, wg, tasks, mainPc>>

\* RestartWorkers, after StopAll and its sleep, calls StartAll and responds
RestartStartAll ==
    /\ restartPc = "stopped"
    /\ restartPc' = "done"
    /\ StartAll
    /\ UNCHANGED <<storeVars, opsLeft, ctxDone, stopChan, mainPc>>

\* BillingWorker.HealthCheck: the status and the timestamp it reports
HealthCheck == [status |-> "running", timestamp |-> now]

\* The workers main registers with RegisterWorker, by their index in m.workers
RegisteredWorkers == {0}

\* fmt.Sprintf("worker_%d", i), for the registered indexes
WorkerKey(i) == CASE i = 0 -> "worker_0"

\* WorkerManager.GetWorkerStatus (GET /worker/status): HealthCheck of every
\* registered worker under its key
GetWorkerStatus ==
    [key \in {WorkerKey(i) : i \in RegisteredWorkers} |-> HealthCheck]

-----------------------------------------------------------------------------
(* POST /billing/process: BillingHandler.ProcessBillingAttempts *)

\* The limit the handler passes on, of the query parameter's value
HandlerLimit(l) == IF l > 0 THEN (IF l > 100 THEN 100 ELSE l) ELSE 50

RequestLimits == {0, 1}

\* The request reads the pending list
AdminProcess(l) ==
    /\ adminReq = <<>>
    /\ opsLeft > 0 /\ opsLeft' = opsLeft - 1
    /\ \E q \in GetPendingBillingAttempts(HandlerLimit(l)) :
          adminReq' = <<[queue |-> q, processedCount |-> 0]>>
    /\ UNCHANGED <<now, cards, subs, attempts, transactions, ledger, pc, queue, count,
                   cardReq, capacity, faultsLeft, tasks, mgrVars>>

\* One turn of the request's loop, the gateway answering gw
AdminCharge(gw) ==
    /\ adminReq # <<>>
    /\ adminReq[1].queue # <<>>
    /\ LET row == Head(adminReq[1].queue)
       IN  /\ processBillingAttempt(row, TRUE, TRUE, TRUE, gw, TRUE, TRUE)
           /\ adminReq' = <<[queue |-> Tail(adminReq[1].queue),
                             processedCount |->
                                 IF processBillingAttemptNil(row, TRUE, TRUE, TRUE, gw, TRUE)
                                 THEN adminReq[1].processedCount + 1
                                 ELSE adminReq[1].processedCount]>>
    /\ UNCHANGED <<now, cards, subs, pc, queue, count, cardReq, capacity, faultsLeft,
                   opsLeft, tasks, mgrVars>>

AdminItem == \E gw \in GatewayOutcomes : AdminCharge(gw)

\* The loop has ended and the handler responds
AdminRespond ==
    /\ adminReq # <<>>
    /\ adminReq[1].queue = <<>>
    /\ adminReq' = <<>>
    /\ UNCHANGED <<now, cards, subs, attempts, transactions, ledger, pc, queue, count,
                   cardReq, capacity, faultsLeft, opsLeft, tasks, mgrVars>>

AdminRequest == \E l \in RequestLimits : AdminProcess(l)

-----------------------------------------------------------------------------
(* The system: the billing worker's cycle, the API's operations, the clock *)

UserCreate ==
    \E u \in Users, p \in Plans, c \in AllCards, fault \in FaultChoices({"attempt"}) :
        CreateSubscription(u, p, c, fault # "attempt") /\ Spend(fault)

UserCancel ==
    \E id \in DOMAIN subs, flag \in BOOLEAN : CancelSubscription(id, flag)

UserCardRead ==
    \E id \in DOMAIN subs, c \in AllCards : UpdateSubscriptionCardRead(id, c)

UserCardWrite ==
    \E fault \in FaultChoices({"subscription"}) :
        UpdateSubscriptionCardWrite(fault # "subscription") /\ Spend(fault)

UserDeleteCard ==
    \E c \in AllCards : DeleteCard(c)

\* The billing worker, the clock and new subscriptions
Next ==
    \/ ProcessDueSubscriptions
    \/ DueItem(DueLimit)
    \/ ProcessPendingBillingAttempts(PendingLimit)
    \/ PendingItem
    \/ RetryFailedBilling(WorkerMaxAttempts)
    \/ RetryItem
    \/ CycleDone
    \/ AdvanceClock
    \/ UserCreate
    \/ MainStartAll

\* ... and the users' requests on existing subscriptions and cards
NextUsers ==
    \/ Next
    \/ UserCancel
    \/ UserCardRead
    \/ UserCardWrite
    \/ UserDeleteCard

\* ... or the admin's requests to process the pending attempts
NextAdmin ==
    \/ Next
    \/ AdminRequest
    \/ AdminItem
    \/ AdminRespond

\* ... or the admin's requests to restart the workers
NextRestart ==
    \/ Next
    \/ StopAllCancel
    \/ StopAllWait
    \/ StopAllStop
    \/ RestartStartAll
    \/ StartReturns

\* RestartWorkers' StopAll cancels the context while the PayWithToken of a turn
\* of the due loop is in flight: the attempt was inserted and the card read
\* before, the gateway answers gw (PayWithToken takes no context), and the store
\* calls that follow are made with the canceled context
DueChargeCanceled(gw) ==
    /\ pc = "due"
    /\ queue # <<>>
    /\ ~ctxDone
    /\ HasRoom
    /\ Head(queue).card_id.UUID \in cards
    /\ restartPc \in {"none", "done", "panicked"}
    /\ opsLeft > 0 /\ opsLeft' = opsLeft - 1
    /\ processSingleSubscription(Head(queue), TRUE, gw, FALSE, FALSE, FALSE)
    /\ queue' = Tail(queue)
    /\ ctxDone' = TRUE
    /\ restartPc' = "wait"
    /\ UNCHANGED <<adminReq, tasks, stopChan, wg, mainPc, now, cards, capacity, pc,
                   cardReq, faultsLeft>>

DueItemCanceled == \E gw \in GatewayOutcomes : DueChargeCanceled(gw)

\* The same in a turn of the pending loop: the row was marked processing and the
\* subscription and the card were read before
PendingChargeCanceled(gw) ==
    /\ pc = "pending"
    /\ queue # <<>>
    /\ ~ctxDone
    /\ subs[Head(queue).subscription_id].card_id.UUID \in cards
    /\ restartPc \in {"none", "done", "panicked"}
    /\ opsLeft > 0 /\ opsLeft' = opsLeft - 1
    /\ processBillingAttempt(Head(queue), TRUE, TRUE, TRUE, gw, FALSE, FALSE)
    /\ queue' = Tail(queue)
    /\ ctxDone' = TRUE
    /\ restartPc' = "wait"
    /\ UNCHANGED <<adminReq, tasks, stopChan, wg, mainPc, now, cards, capacity, subs,
                   pc, count, cardReq, faultsLeft>>

PendingItemCanceled == \E gw \in GatewayOutcomes : PendingChargeCanceled(gw)

\* ... the restart requests, at any point of a cycle and of a charge
NextStopInFlight ==
    \/ NextRestart
    \/ DueItemCanceled
    \/ PendingItemCanceled

StartWith(rows, faultBudget, opBudget) ==
    /\ now = StartInstant
    /\ cards = AllCards
    /\ subs = <<>>
    /\ attempts = <<>>
    /\ transactions = <<>>
    /\ ledger = <<>>
    /\ pc = "idle"
    /\ queue = <<>>
    /\ count = 0
    /\ cardReq = <<>>
    /\ capacity = rows
    /\ faultsLeft = faultBudget
    /\ opsLeft = opBudget
    /\ adminReq = <<>>
    /\ ctxDone = FALSE
    /\ stopChan = "open"
    /\ wg = 0
    /\ tasks = <<>>
    /\ mainPc = "go"
    /\ restartPc = "none"

Start(faultBudget, opBudget) == StartWith(MaxAttempts, faultBudget, opBudget)

InitUsers == Start(0, MaxUserOps)

InitFaulty == Start(MaxFaults, 0)

\* Reliable stores, no request on an existing subscription
Spec == Init /\ [][Next]_vars

\* Reliable stores; the users cancel, swap cards and delete cards
SpecUsers == InitUsers /\ [][NextUsers]_vars

\* Store calls can fail
SpecFaulty == InitFaulty /\ [][Next]_vars

\* Reliable stores; POST /billing/process runs beside the worker
SpecAdmin == InitUsers /\ [][NextAdmin]_vars

\* Reliable stores; POST /worker/restart
SpecRestart == InitUsers /\ [][NextRestart]_vars

\* Reliable stores; POST /worker/restart, also while a charge is in flight
SpecStopInFlight == InitUsers /\ [][NextStopInFlight]_vars

\* Reliable stores; POST /worker/restart can be requested more than once
InitRestartTwice == Start(0, MaxRestarts)

SpecRestartTwice == InitRestartTwice /\ [][NextRestart]_vars

\* The stores as the worker's cycles of 17 and 18 January leave them: the daily
\* subscription's first charge was declined, the charge at its first boundary
\* too, and so was the first retry; a second retry is pending
ResumedInstant == StartInstant + RetryCooldown + 1

ResumedRow(id, ordinal, status, scheduled, cycle) ==
    [id |-> id, subscription_id |-> 1, amount |-> 1000, currency |-> "LKR",
     status |-> status, gateway_transaction_id |-> NullString,
     error_code |-> IF status = "failed" THEN SomeString("DECLINED") ELSE NullString,
     error_message |-> IF status = "failed" THEN SomeString("FAILURE") ELSE NullString,
     attempt_number |-> ordinal, scheduled_at |-> scheduled,
     processed_at |-> IF status = "failed" THEN SomeTime(scheduled) ELSE NullTime,
     cycle |-> cycle]

ResumedAttempts ==
    << ResumedRow(1, 1, "failed", StartInstant, StartInstant),
       ResumedRow(2, 1, "failed", ResumedInstant, StartInstant + MinutesPerDay),
       ResumedRow(3, 2, "failed", ResumedInstant, StartInstant),
       ResumedRow(4, 2, "pending", ResumedInstant, StartInstant) >>

ResumedSubscription ==
    [id |-> 1, user_id |-> "u1",
     plan_id |-> SomeUUID("daily"), card_id |-> SomeUUID("c1"),
     amount |-> 1000, currency |-> "LKR",
     status |-> "past_due", interval |-> "day",
     current_period_start |-> SomeTime(StartInstant),
     current_period_end |-> SomeTime(StartInstant + MinutesPerDay),
     trial_start |-> NullTime, trial_end |-> NullTime,
     cancel_at_period_end |-> FALSE, canceled_at |-> NullTime,
     billing_cycle_anchor |-> SomeTime(StartInstant),
     next_billing_at |-> StartInstant + MinutesPerDay, created_at |-> StartInstant]

ResumedStores ==
    /\ now = ResumedInstant
    /\ cards = AllCards
    /\ subs = <<ResumedSubscription>>
    /\ attempts = ResumedAttempts
    /\ transactions = <<>>
    /\ ledger = <<>>
    /\ pc = "idle"
    /\ queue = <<>>
    /\ count = 0
    /\ cardReq = <<>>
    /\ adminReq = <<>>
    /\ ctxDone = FALSE
    /\ stopChan = "open"
    /\ wg = 1
    /\ tasks = <<"select">>
    /\ mainPc = "serving"
    /\ restartPc = "none"

Resumed == ResumedStores /\ faultsLeft = 0 /\ opsLeft = 0

InitResumed == Init \/ (Resumed /\ capacity = Len(ResumedAttempts) + MaxResumedAttempts)

\* Reliable stores; the behaviours of Spec, and those that go on from Resumed
SpecResumed == InitResumed /\ [][Next]_vars

\* The same with the users' requests
InitResumedUsers ==
    \/ InitUsers
    \/ /\ ResumedStores /\ faultsLeft = 0 /\ opsLeft = MaxUserOps
       /\ capacity = Len(ResumedAttempts) + MaxResumedAttempts

SpecResumedUsers == InitResumedUsers /\ [][NextUsers]_vars

\* The stores after one user has subscribed to both active plans at the start
\* instant: the daily subscription with its initial attempt, and the monthly one
\* in its trial
PairSubscriptions ==
    << [ResumedSubscription EXCEPT !.status = "active"],
       [id |-> 2, user_id |-> "u1",
        plan_id |-> SomeUUID("monthly"), card_id |-> SomeUUID("c2"),
        amount |-> 2500, currency |-> "USD",
        status |-> "trialing", interval |-> "month",
        current_period_start |-> NullTime, current_period_end |-> NullTime,
        trial_start |-> SomeTime(StartInstant),
        trial_end |-> SomeTime(AddDate(StartInstant, 0, 0, 14)),
        cancel_at_period_end |-> FALSE, canceled_at |-> NullTime,
        billing_cycle_anchor |-> NullTime,
        next_billing_at |-> AddDate(StartInstant, 0, 0, 14),
        created_at |-> StartInstant] >>

InitPair ==
    /\ now = StartInstant
    /\ cards = AllCards
    /\ subs = PairSubscriptions
    /\ attempts = <<ResumedRow(1, 1, "pending", StartInstant, StartInstant)>>
    /\ transactions = <<>>
    /\ ledger = <<>>
    /\ pc = "idle"
    /\ queue = <<>>
    /\ count = 0
    /\ cardReq = <<>>
    /\ capacity = MaxAttempts
    /\ faultsLeft = 0
    /\ opsLeft = MaxUserOps
    /\ adminReq = <<>>
    /\ ctxDone = FALSE
    /\ stopChan = "open"
    /\ wg = 0
    /\ tasks = <<>>
    /\ mainPc = "go"
    /\ restartPc = "none"

\* runBillingCycle, one ticker period after another
Worker ==
    \/ ProcessDueSubscriptions
    \/ DueItem(DueLimit)
    \/ ProcessPendingBillingAttempts(PendingLimit)
    \/ PendingItem
    \/ RetryFailedBilling(WorkerMaxAttempts)
    \/ RetryItem
    \/ CycleDone

\* The system with ProcessDueSubscriptions called with another limit than the
\* worker's 100
NextCalledWith(limit) ==
    \/ ProcessDueSubscriptions
    \/ DueItem(limit)
    \/ ProcessPendingBillingAttempts(PendingLimit)
    \/ PendingItem
    \/ RetryFailedBilling(WorkerMaxAttempts)
    \/ RetryItem
    \/ CycleDone
    \/ AdvanceClock
    \/ UserCreate
    \/ MainStartAll

\* Reliable stores; every call is ProcessDueSubscriptions(ctx, 0)
SpecZeroLimit == Init /\ [][NextCalledWith(0)]_vars

\* The worker, the clock and cancellations, with no further subscription
NextPair ==
    \/ Worker
    \/ AdvanceClock
    \/ MainStartAll
    \/ UserCancel

\* Reliable stores, two subscriptions
SpecPair == InitPair /\ [][NextPair]_vars

\* Reliable stores; the worker keeps running its cycles, time keeps passing, and a
\* gateway that is asked again and again approves in the end
SpecLive ==
    /\ Init /\ [][Next]_vars
    /\ WF_vars(MainStartAll)
    /\ WF_vars(Worker)
    /\ SF_vars(AdvanceClock)
    /\ SF_vars(DueCharge(DueLimit, ApprovedOutcome))
    /\ SF_vars(PendingCharge(ApprovedOutcome))

\* The same, with store calls that can fail
SpecFaultyLive ==
    /\ InitFaulty /\ [][Next]_vars
    /\ WF_vars(MainStartAll)
    /\ WF_vars(Worker)
    /\ SF_vars(AdvanceClock)
    /\ SF_vars(DueCharge(DueLimit, ApprovedOutcome))
    /\ SF_vars(PendingCharge(ApprovedOutcome))

\* The worker's goroutines as the Go scheduler runs them: a goroutine that can
\* take a step takes one, and a select that is run again and again with
\* ctx.Done() or stopChan ready takes that case in the end.  Store calls can
\* fail, the workers can be restarted, and the attempts table is small.
InitRestartLive == StartWith(MaxLiveAttempts, MaxFaults, MaxUserOps)

SpecRestartLive ==
    /\ InitRestartLive /\ [][NextRestart]_vars
    /\ WF_vars(MainStartAll)
    /\ WF_vars(Worker)
    /\ SF_vars(StartReturns)

-----------------------------------------------------------------------------
(* The claims *)

\* C1: across the worker's billing cycles, with gateway errors, declines and
\* failing store writes, no subscription receives more than one gateway-approved
\* charge for the same billing cycle.
C1_OneApprovedChargePerCycle ==
    \A i, j \in DOMAIN ledger :
        (ledger[i].sub = ledger[j].sub /\ ledger[i].cycle = ledger[j].cycle) => i = j

\* The billing cycle a subscription's attempts have reached
OwedCycle(i) ==
    LET cycles == {attempts[a].cycle : a \in {b \in DOMAIN attempts :
                                                attempts[b].subscription_id = i}}
    IN  CHOOSE c \in cycles : \A d \in cycles : d <= c

Billed(i) ==
    \E k \in DOMAIN ledger : ledger[k].sub = i /\ ledger[k].cycle = OwedCycle(i)

\* C2: with the worker running its cycles fairly and a gateway that approves in
\* the end, a subscription that became past_due is not left un-billed and
\* un-advanced forever (while the attempts table has room).
C2_PastDueProgress ==
    \A i \in 1..MaxSubs :
        (i \in DOMAIN subs /\ subs[i].status = "past_due")
            ~> (i \in DOMAIN subs
                /\ (subs[i].status # "past_due" \/ Billed(i) \/ ~HasRoom))

\* The attempts and the approved charges that a step adds
NewAttempts == (DOMAIN attempts') \ (DOMAIN attempts)

NewCharges == (DOMAIN ledger') \ (DOMAIN ledger)

\* C3: once an attempt of a subscription's billing cycle is succeeded, no step
\* creates or charges another attempt for that cycle.
C3_SucceededIsTerminal ==
    [][\A a \in DOMAIN attempts :
          attempts[a].status = "succeeded" =>
              /\ \A b \in NewAttempts :
                     ~ /\ attempts'[b].subscription_id = attempts[a].subscription_id
                       /\ attempts'[b].cycle = attempts[a].cycle
              /\ \A k \in NewCharges :
                     ~ /\ ledger'[k].sub = attempts[a].subscription_id
                       /\ ledger'[k].cycle = attempts[a].cycle]_vars

\* C4: in every state, the attempt_number values of the attempts of one
\* subscription and billing cycle are 1, 2, 3, ... with no ordinal twice.
C4_OrdinalsFormSequence ==
    \A a \in DOMAIN attempts :
        LET same == {b \in DOMAIN attempts :
                        /\ attempts[b].subscription_id = attempts[a].subscription_id
                        /\ attempts[b].cycle = attempts[a].cycle}
        IN  {attempts[b].attempt_number : b \in same} = 1..Cardinality(same)

\* C5: when a past_due subscription's attempt is approved, the same step sets
\* its status to active and advances its next_billing_at.
C5_ApprovalRecoversPastDue ==
    [][\A i \in DOMAIN subs :
          (subs[i].status = "past_due" /\ \E k \in NewCharges : ledger'[k].sub = i)
              => /\ subs'[i].status = "active"
                 /\ subs'[i].next_billing_at > subs[i].next_billing_at]_vars

\* The calendar month an instant lies in, counted from year 0
MonthIndex(t) ==
    12 * YearOfDay(t \div MinutesPerDay) + MonthOfDay(t \div MinutesPerDay)

\* advance(D, i) as the interval rule states it: whether to is D advanced by one
\* interval
IsAdvanceOf(to, D, interval) ==
    CASE interval = "day"  -> to = D + MinutesPerDay
      [] interval = "week" -> to = D + 7 * MinutesPerDay
      [] interval = "year" ->
            /\ YearOfDay(to \div MinutesPerDay) = YearOfDay(D \div MinutesPerDay) + 1
            /\ to % MinutesPerDay = D % MinutesPerDay
      [] OTHER ->
            /\ MonthIndex(to) = MonthIndex(D) + 1
            /\ to % MinutesPerDay = D % MinutesPerDay

\* C6: when the due path's charge for a subscription with next_billing_at = D is
\* approved, the stored subscription has current_period_start = D,
\* next_billing_at = advance(D, interval), current_period_end = the new
\* next_billing_at, and exactly one Transaction references the attempt.
C6_ApprovedDueCharge ==
    [][\A k \in NewCharges :
          pc = "due" =>
              LET i == ledger'[k].sub
                  D == subs[i].next_billing_at
              IN  /\ subs'[i].current_period_start = SomeTime(D)
                  /\ IsAdvanceOf(subs'[i].next_billing_at, D, subs[i].interval)
                  /\ subs'[i].current_period_end = SomeTime(subs'[i].next_billing_at)
                  /\ Cardinality({t \in DOMAIN transactions' :
                         transactions'[t].billing_attempt_id = ledger'[k].att}) = 1]_vars

\* The due predicate as C7 states it
SatisfiesDuePredicate(sub) ==
    /\ sub.status = "active" \/ sub.status = "trialing"
    /\ ~sub.cancel_at_period_end
    /\ sub.trial_end.Valid => sub.trial_end.Time <= now
    /\ sub.next_billing_at <= now + 5

\* C7: one call of ProcessDueSubscriptions works on exactly the subscriptions
\* that satisfy the due predicate, each once, and every turn of its loop creates
\* exactly one attempt, with attempt_number 1, for the subscription of that turn
\* and none for another; the loop ends early only at limit.
C7_OneAttemptPerDueSubscription ==
    [][/\ (pc = "idle" /\ pc' = "due") =>
             /\ {queue'[k].id : k \in DOMAIN queue'}
                    = {i \in DOMAIN subs : SatisfiesDuePredicate(subs[i])}
             /\ \A k, l \in DOMAIN queue' : queue'[k].id = queue'[l].id => k = l
       /\ (pc = "due" /\ pc' = "due" /\ queue' # queue) =>
             /\ NewAttempts = {Len(attempts) + 1}
             /\ attempts'[Len(attempts) + 1].subscription_id = Head(queue).id
             /\ attempts'[Len(attempts) + 1].attempt_number = 1
             /\ queue' = Tail(queue) \/ count' >= DueLimit]_vars

\* A call has ended that created an attempt for the due subscription, and ...
C7_CallCreatedAttempt ==
    /\ pc = "due" /\ queue = <<>>
    /\ \E a \in DOMAIN attempts :
          /\ attempts[a].attempt_number = 1
          /\ attempts[a].processed_at = SomeTime(now)
          /\ attempts[a].cycle = attempts[a].scheduled_at + Lookahead

\* C8: RetryFailedBilling schedules the retry by the failed attempt's ordinal:
\* 1 -> scheduled_at = now, 2 -> processed_at + 72h, 3 -> processed_at + 168h,
\* 4 and more -> no retry.
C8_BackoffLaw ==
    [][(pc = "retry" /\ pc' = "retry" /\ queue' # queue) =>
          LET failed == Head(queue)
              n == failed.attempt_number
          IN  /\ n >= 4 => NewAttempts = {}
              /\ \A b \in NewAttempts :
                    attempts'[b].scheduled_at =
                        CASE n = 1 -> now
                          [] n = 2 -> failed.processed_at.Time + 72 * 60
                          [] OTHER -> failed.processed_at.Time + 168 * 60]_vars

\* C9: a failed attempt with error code card_declined, insufficient_funds or
\* invalid_card never leads to the creation of a retry attempt.
C9_PermanentDeclineNotRetried ==
    [][(pc = "retry" /\ pc' = "retry" /\ queue' # queue /\ NewAttempts # {}) =>
          ~ /\ Head(queue).error_code.Valid
            /\ Head(queue).error_code.String
                   \in {"card_declined", "insufficient_funds", "invalid_card"}]_vars

\* RetryFailedBilling has read its list while a permanently declined attempt was
\* past the cooldown, below maxAttempts and of a subscription still active
C9_PermanentDeclinePastCooldown ==
    /\ pc = "retry"
    /\ \E a \in DOMAIN attempts :
          /\ attempts[a].status = "failed"
          /\ attempts[a].error_code.Valid
          /\ attempts[a].error_code.String
                 \in {"card_declined", "insufficient_funds", "invalid_card"}
          /\ attempts[a].attempt_number < WorkerMaxAttempts
          /\ attempts[a].processed_at.Valid
          /\ attempts[a].processed_at.Time < now - RetryCooldown
          /\ subs[attempts[a].subscription_id].status \in {"active", "past_due"}

\* C10: with CancelSubscription and UpdateSubscriptionCard interleaved with the
\* engine, a subscription's stored next_billing_at never decreases, and it
\* changes only in the update that follows an approved charge.
C10_NextBillingAtOnlyAdvances ==
    [][\A i \in DOMAIN subs :
          /\ subs'[i].next_billing_at >= subs[i].next_billing_at
          /\ subs'[i].next_billing_at # subs[i].next_billing_at
                => \E k \in NewCharges : ledger'[k].sub = i]_vars

\* The subscriptions a step adds, and the plan a subscription was created from
NewSubs == (DOMAIN subs') \ (DOMAIN subs)

PlanOf(sub) == CHOOSE p \in Plans : p.id = sub.plan_id.UUID

C12_NoTrialCreation ==
    [][\A i \in NewSubs :
          PlanOf(subs'[i]).trial_period_days = 0 =>
              /\ subs'[i].status = "active"
              /\ IsAdvanceOf(subs'[i].next_billing_at, subs'[i].created_at,
                             subs'[i].interval)
              /\ \E a \in NewAttempts :
                    /\ NewAttempts = {a}
                    /\ attempts'[a].subscription_id = i
                    /\ attempts'[a].status = "pending"
                    /\ attempts'[a].attempt_number = 1
                    /\ attempts'[a].scheduled_at = subs'[i].created_at]_vars

\* C13: a Transaction that references a billing attempt is created only once the
\* attempt is stored as succeeded; in every state, also while the worker and an
\* admin request process the same attempt, the attempt a Transaction references
\* has status succeeded; and no step changes a Transaction that exists.
C13_TransactionOfSucceededAttempt ==
    [][/\ \A t \in DOMAIN transactions' :
             attempts'[transactions'[t].billing_attempt_id].status = "succeeded"
       /\ \A t \in DOMAIN transactions : transactions'[t] = transactions[t]]_vars

\* C14: every BillingAttempt that is in status processing is later succeeded or
\* failed, also when a store update fails while its item is handled.
C14_ProcessingTerminates ==
    \A a \in 1..MaxAttempts :
        (a \in DOMAIN attempts /\ attempts[a].status = "processing")
            ~> (a \in DOMAIN attempts
                /\ attempts[a].status \in {"succeeded", "failed"})

\* C15: a goroutine in BillingWorker.Start first runs one complete billing
\* cycle, then one cycle each time its select takes the ticker; it returns only
\* from its select, only when the context is canceled or stopChan is closed, and
\* it does return once either has happened and the cycle in flight has finished;
\* after it has returned it begins no cycle.
C15_StartRunsCyclesUntilSignal ==
    /\ [][\A k \in DOMAIN tasks :
             /\ tasks[k] = "start" => tasks'[k] \in {"start", "cycle"}
             /\ tasks[k] = "cycle" => tasks'[k] \in {"cycle", "select"}
             /\ tasks[k] = "select" => tasks'[k] \in {"select", "cycle", "returned"}
             /\ tasks[k] = "returned" => tasks'[k] = "returned"
             /\ (tasks[k] # "cycle" /\ tasks'[k] = "cycle") =>
                    pc = "idle" /\ pc' = "due"
             /\ (tasks[k] = "cycle" /\ tasks'[k] = "select") =>
                    pc = "retry" /\ queue = <<>> /\ pc' = "idle"
             /\ (tasks[k] # "returned" /\ tasks'[k] = "returned") =>
                    ctxDone \/ stopChan = "closed"]_vars
    /\ \A k \in 1..(MaxUserOps + 1) :
          (k \in DOMAIN tasks /\ (ctxDone \/ stopChan = "closed"))
              ~> (k \in DOMAIN tasks /\ tasks[k] = "returned")

\* The goroutine main started has run cycles that charged a subscription, and has
\* returned after the context was canceled
C15_ReturnedAfterCancel ==
    /\ tasks # <<>> /\ tasks[1] = "returned"
    /\ ctxDone
    /\ ledger # <<>>

\* C16: a billing cycle runs its three tasks in the order due subscriptions,
\* pending attempts, retries, each once, also when a task's query or store call
\* fails or the context is canceled; the cycle then completes (while the attempts
\* table has room for the rows it inserts).
C16_ThreeTasksInOrder ==
    /\ [][pc' # pc => <<pc, pc'>> \in { <<"idle", "due">>, <<"due", "pending">>,
                                         <<"pending", "retry">>, <<"retry", "idle">> }]_vars
    /\ (pc # "idle") ~> (pc = "idle" \/ (queue # <<>> /\ ~HasRoom))

\* The cycle is in its third task although the second has left a pending attempt
\* unprocessed, its calls failing on the canceled context
C16_TaskFailedCycleGoesOn ==
    /\ pc = "retry"
    /\ ctxDone
    /\ \E a \in DOMAIN attempts : PendingNow(attempts[a])

\* C17: when StopAll returns, every goroutine StartAll launched has returned from
\* Start and no billing cycle is in progress; a goroutine that has returned
\* begins no cycle, so that none begins until StartAll launches another.
C17_StopAllLeavesNoWorker ==
    [][/\ (restartPc = "sleep" /\ restartPc' = "stopped") =>
             /\ \A k \in DOMAIN tasks' : tasks'[k] = "returned"
             /\ pc' = "idle"
       /\ \A k \in DOMAIN tasks :
             tasks[k] = "returned" => tasks'[k] = "returned"]_vars

\* C18: after RestartWorkers has completed, the worker is running again: until a
\* later StopAll, no goroutine of the worker returns from Start.
C18_RestartedWorkerKeepsRunning ==
    [][(restartPc = "done" /\ restartPc' = "done") =>
          \A k \in DOMAIN tasks :
              tasks[k] # "returned" => tasks'[k] # "returned"]_vars

\* A step of the billing engine: no request of a user is part of it
BillingStep ==
    /\ opsLeft' = opsLeft
    /\ cardReq' = cardReq
    /\ DOMAIN subs' = DOMAIN subs

\* The retry policy has nothing left for the subscription: an attempt with the
\* last ordinal has failed
RetriesExhausted(i) ==
    \E a \in DOMAIN attempts :
        /\ attempts[a].subscription_id = i
        /\ attempts[a].status = "failed"
        /\ attempts[a].attempt_number >= WorkerMaxAttempts

\* The statuses a subscription does not leave
TerminalStatuses == {"canceled", "incomplete_expired", "unpaid"}

\* C19: no step of the due path, the pending-attempt path or the retry path
\* stores canceled or another terminal status for a subscription that did not
\* have it; a past_due subscription whose retries are exhausted stays past_due in
\* these steps; and a subscription with cancel_at_period_end = true becomes
\* canceled only in a step of CancelSubscription.
C19_BillingNeverCancels ==
    [][\A i \in DOMAIN subs :
          /\ BillingStep =>
                /\ subs'[i].status # subs[i].status
                       => subs'[i].status \notin TerminalStatuses
                /\ (subs[i].status = "past_due" /\ RetriesExhausted(i))
                       => subs'[i].status = "past_due"
          /\ ( /\ subs[i].cancel_at_period_end
               /\ subs[i].status # "canceled"
               /\ subs'[i].status = "canceled" )
                => /\ opsLeft' = opsLeft - 1
                   /\ subs'[i].canceled_at = SomeTime(now)
                   /\ cardReq' = cardReq]_vars

\* The worker is in its retry task while a subscription with
\* cancel_at_period_end = true is past_due and its retries are exhausted
C19_ExhaustedWhileCanceling ==
    /\ pc = "retry"
    /\ \E i \in DOMAIN subs :
          /\ subs[i].cancel_at_period_end
          /\ subs[i].status = "past_due"
          /\ RetriesExhausted(i)

\* C20: with maxAttempts = 3, a turn of the retry loop inserts an attempt only
\* while the subscription's billing cycle has fewer than 3 attempts: no billing
\* cycle ever has more than 3.
C20_AtMostMaxAttemptsPerCycle ==
    [][(pc = "retry" /\ pc' = "retry") =>
          \A b \in NewAttempts :
              Cardinality({a \in DOMAIN attempts' :
                              /\ attempts'[a].subscription_id = attempts'[b].subscription_id
                              /\ attempts'[a].cycle = attempts'[b].cycle})
                  <= WorkerMaxAttempts]_vars

\* What a turn of ProcessPendingBillingAttempts' loop does with the row it
\* selected, whatever the stored row has become: the row is marked processing
\* and charged; an approved charge is on the gateway's ledger and the attempt is
\* succeeded, any other outcome leaves the attempt failed
ChargedAsSelected(row) ==
    \/ /\ NewCharges = {Len(ledger) + 1}
       /\ ledger'[Len(ledger) + 1].att = row.id
       /\ attempts'[row.id].status = "succeeded"
    \/ /\ NewCharges = {}
       /\ attempts'[row.id].status = "failed"

DueTurn == pc = "due" /\ queue # <<>> /\ queue' # queue

\* The period fields and next_billing_at of a stored subscription stay as they are
SameDates(i) ==
    /\ subs'[i].next_billing_at = subs[i].next_billing_at
    /\ subs'[i].current_period_start = subs[i].current_period_start
    /\ subs'[i].current_period_end = subs[i].current_period_end

\* C22: when the gateway call of the due path fails with a transport/API error,
\* the attempt is stored as failed with the error text as its message and no
\* error code, a subscription whose status was active is stored as past_due, and
\* the loop goes on with the next subscription.
C22_TransportErrorDueCharge ==
    [][DueTurn =>
          \A b \in NewAttempts :
              attempts'[b].error_message = SomeString("transport error") =>
                  /\ attempts'[b].status = "failed"
                  /\ attempts'[b].error_code = NullString
                  /\ Head(queue).status = "active"
                         => subs'[Head(queue).id].status = "past_due"
                  /\ queue' = Tail(queue)]_vars

\* C23: when the gateway answers a due-path charge with a result other than
\* SUCCESS or a code other than APPROVED, the attempt is stored as failed with
\* the gateway code as error code and the result as error message, a
\* subscription whose status was active is stored as past_due, next_billing_at
\* and the period fields stay unchanged, and no Transaction is created.
C23_DeclinedDueCharge ==
    [][DueTurn =>
          \A b \in NewAttempts :
              LET subscription == Head(queue)
              IN  ( /\ subscription.card_id.UUID \in cards
                    /\ NewCharges = {}
                    /\ attempts'[b].error_message # SomeString("transport error") )
                  => /\ attempts'[b].status = "failed"
                     /\ \E gw \in GatewayOutcomes :
                           /\ ~gw.err
                           /\ gw.result # "SUCCESS" \/ gw.code # "APPROVED"
                           /\ attempts'[b].error_code = SomeString(gw.code)
                           /\ attempts'[b].error_message = SomeString(gw.result)
                     /\ subscription.status = "active"
                            => subs'[subscription.id].status = "past_due"
                     /\ SameDates(subscription.id)
                     /\ transactions' = transactions]_vars

\* The due path has stored a declined charge of an active subscription
C23_DeclineStored ==
    /\ pc = "due"
    /\ \E a \in DOMAIN attempts :
          /\ attempts[a].status = "failed"
          /\ attempts[a].error_code = SomeString("insufficient_funds")
          /\ attempts[a].processed_at = SomeTime(now)
          /\ attempts[a].cycle # attempts[a].scheduled_at
          /\ subs[attempts[a].subscription_id].status = "past_due"

\* C24: when the due path cannot resolve the subscription's card, the attempt is
\* stored as failed with message "Card not found" and no error code, no gateway
\* charge is issued, and the subscription record is left unchanged.
C24_CardNotFoundDueCharge ==
    [][DueTurn =>
          (Head(queue).card_id.UUID \notin cards =>
              /\ NewAttempts = {Len(attempts) + 1}
              /\ attempts'[Len(attempts) + 1].subscription_id = Head(queue).id
              /\ attempts'[Len(attempts) + 1].status = "failed"
              /\ attempts'[Len(attempts) + 1].error_message = SomeString("Card not found")
              /\ attempts'[Len(attempts) + 1].error_code = NullString
              /\ ledger' = ledger
              /\ transactions' = transactions
              /\ subs' = subs)]_vars

\* The due path has stored the failure for a subscription whose card was deleted
C24_CardNotFoundStored ==
    /\ pc = "due"
    /\ \E a \in DOMAIN attempts :
          /\ attempts[a].status = "failed"
          /\ attempts[a].error_message = SomeString("Card not found")
          /\ attempts[a].cycle # attempts[a].scheduled_at
          /\ subs[attempts[a].subscription_id].card_id.UUID \notin cards
          /\ subs[attempts[a].subscription_id].status \in {"active", "trialing"}

\* C25: when a charge is approved and the save of the Transaction fails, the
\* charge is not rolled back: the attempt is not marked failed, a succeeded
\* attempt carries the gateway's transaction id, and in the due path the
\* subscription's period and next_billing_at are advanced as on full success.
C25_TransactionSaveFails ==
    [][\A k \in NewCharges :
          LET a == ledger'[k].att
              i == ledger'[k].sub
              D == subs[i].next_billing_at
              next == calculateNextBillingDate(D, subs[i].interval)
          IN  transactions' = transactions =>
                  /\ attempts'[a].status \in {"succeeded", "processing"}
                  /\ attempts'[a].status = "succeeded" =>
                        /\ attempts'[a].gateway_transaction_id
                               = SomeString(ledger'[k].txid)
                        /\ pc = "due" =>
                              /\ subs'[i].current_period_start = SomeTime(D)
                              /\ subs'[i].next_billing_at = next
                              /\ subs'[i].current_period_end = SomeTime(next)]_vars

\* The due path has charged and advanced a subscription, and no Transaction
\* records the charge
C25_ChargeWithoutTransaction ==
    /\ pc = "due"
    /\ transactions = <<>>
    /\ \E k \in DOMAIN ledger :
          /\ attempts[ledger[k].att].status = "succeeded"
          /\ attempts[ledger[k].att].processed_at = SomeTime(now)
          /\ subs[ledger[k].sub].current_period_start
                 = SomeTime(attempts[ledger[k].att].cycle)
          /\ subs[ledger[k].sub].next_billing_at > attempts[ledger[k].att].cycle

\* The selection of ProcessDueSubscriptions as C26 states it, of a row
SelectedAsDue(sub) ==
    /\ sub.status \in {"active", "trialing"}
    /\ sub.cancel_at_period_end = FALSE
    /\ sub.next_billing_at <= now + 5
    /\ ~sub.trial_end.Valid \/ sub.trial_end.Time <= now

\* C26: the rows ProcessDueSubscriptions selects are stored subscriptions with
\* status active or trialing, cancel_at_period_end = false, next_billing_at <=
\* now + 5 minutes and no trial or trial_end <= now, in ascending
\* next_billing_at order; it starts attempts for these rows only, in that
\* order; so a row it charges is not trialing before its trial_end, and is
\* neither past_due nor canceled.
C26_DueSelection ==
    [][/\ (pc = "idle" /\ pc' = "due") =>
             /\ \A k \in DOMAIN queue' :
                    /\ queue'[k] = subs[queue'[k].id]
                    /\ SelectedAsDue(queue'[k])
             /\ \A k, l \in DOMAIN queue' :
                    k < l => queue'[k].next_billing_at <= queue'[l].next_billing_at
       /\ DueTurn =>
             /\ SelectedAsDue(Head(queue))
             /\ \A k, l \in DOMAIN queue :
                    k < l => queue[k].next_billing_at <= queue[l].next_billing_at
             /\ \A b \in NewAttempts : attempts'[b].subscription_id = Head(queue).id
             /\ \A c \in NewCharges :
                    /\ ledger'[c].sub = Head(queue).id
                    /\ Head(queue).status \notin {"past_due", "canceled"}
                    /\ Head(queue).status = "trialing"
                           => Head(queue).trial_end.Time <= now
             /\ queue' \in {Tail(queue), <<>>}
       /\ (pc # "due" \/ pc' # "due") =>
             \A b \in NewAttempts : attempts'[b].attempt_number > 1
                                         \/ attempts'[b].status = "pending"]_vars

\* Two subscriptions were selected in one call; the one due earlier has been
\* handled and the other, whose trial has just ended, is next
C26_SecondOfTwoIsNext ==
    /\ pc = "due"
    /\ Len(queue) = 1
    /\ queue[1].status = "trialing"
    /\ \E a \in DOMAIN attempts :
          /\ attempts[a].subscription_id # queue[1].id
          /\ attempts[a].processed_at = SomeTime(now)
          /\ attempts[a].cycle < queue[1].next_billing_at
          /\ attempts[a].cycle # attempts[a].scheduled_at

\* What C27 states of every turn of the loop of ProcessDueSubscriptions(limit),
\* count being the number the call returns: a subscription counts when its
\* charge was approved and stored, the number stays within min(limit, 100), a
\* failure is not counted and the loop goes on with the next row, and the call
\* goes on to return without an error
DueCountLaw(limit) ==
    DueTurn =>
        /\ count' = IF NewCharges # {} THEN count + 1 ELSE count
        /\ count' <= Min(limit, 100)
        /\ NewCharges = {} => queue' = Tail(queue)
        /\ pc' = "due"

\* C27: ProcessDueSubscriptions(limit) returns the number of subscriptions whose
\* cycle fully succeeded, at most min(limit, 100) for every limit >= 0; a failure
\* on one subscription is not counted, does not stop the loop and is not
\* returned as an error.  Here for limit = 0.
C27_CountWithinLimit == [][DueCountLaw(0)]_vars

\* A turn of the loop of ProcessPendingBillingAttempts, in the worker's cycle or
\* in the admin's request
PendingTurn ==
    \/ pc = "pending" /\ queue # <<>> /\ queue' = Tail(queue)
    \/ /\ adminReq # <<>> /\ adminReq' # <<>>
       /\ adminReq[1].queue # <<>>
       /\ adminReq'[1].queue = Tail(adminReq[1].queue)

\* C28: ProcessPendingBillingAttempts never modifies a subscription record:
\* whatever the outcome of an attempt (approved, declined, transport error,
\* subscription or card not found, a store call that fails), the subscriptions
\* table is the same after the step, from the reading of the list to the end
\* of the loop.
C28_PendingPathKeepsSubscriptions ==
    [][(PendingTurn \/ (pc = "due" /\ pc' = "pending")) => subs' = subs]_vars

\* An approved charge of the pending path: the attempt is succeeded and the
\* subscription is as CreateSubscription stored it
C28_ApprovedAndUntouched ==
    /\ pc = "pending"
    /\ \E k \in DOMAIN ledger :
          /\ attempts[ledger[k].att].status = "succeeded"
          /\ attempts[ledger[k].att].cycle = attempts[ledger[k].att].scheduled_at
          /\ attempts[ledger[k].att].processed_at = SomeTime(now)
          /\ subs[ledger[k].sub].status = "active"
          /\ subs[ledger[k].sub].current_period_start
                 = SomeTime(subs[ledger[k].sub].created_at)

\* C29: ProcessPendingBillingAttempts(limit) selects stored attempts with
\* status pending or requires_action and scheduled_at <= now, in ascending
\* scheduled_at order and at most limit of them; and an attempt it charges, in
\* the worker's cycle or in the admin's request, is at that moment pending or
\* requires_action with scheduled_at <= now: not one already succeeded or
\* failed, and not a retry before its scheduled_at.
C29_PendingSelection ==
    [][/\ (pc = "due" /\ pc' = "pending") =>
             /\ \A k \in DOMAIN queue' :
                    /\ queue'[k] = attempts[queue'[k].id]
                    /\ queue'[k].status \in {"pending", "requires_action"}
                    /\ queue'[k].scheduled_at <= now
             /\ \A k, l \in DOMAIN queue' :
                    k < l => /\ queue'[k].scheduled_at <= queue'[l].scheduled_at
                             /\ queue'[k].id # queue'[l].id
             /\ Len(queue') <= PendingLimit
       /\ PendingTurn =>
             \A c \in NewCharges :
                 /\ attempts[ledger'[c].att].status \in {"pending", "requires_action"}
                 /\ attempts[ledger'[c].att].scheduled_at <= now]_vars

\* The failed attempts C30 states RetryFailedBilling creates a retry for
RetryEligible(att, maxAttempts) ==
    /\ att.status = "failed"
    /\ att.attempt_number < maxAttempts
    /\ att.processed_at.Valid /\ att.processed_at.Time < now - 24 * 60
    /\ ~ /\ att.error_code.Valid
         /\ att.error_code.String \in {"card_declined", "insufficient_funds",
                                        "invalid_card"}
    /\ subs[att.subscription_id].status \in {"active", "past_due"}

\* C30: RetryFailedBilling(3) creates a retry attempt for exactly the failed
\* attempts that have attempt_number < 3, processed_at more than 24 hours ago,
\* an error code that is not a permanent-decline code or no error code at all,
\* and a subscription that is active or past_due: the list it reads holds all
\* of these, and a turn of its loop inserts an attempt exactly for these.
C30_RetryEligibility ==
    [][/\ (pc = "pending" /\ pc' = "retry") =>
             \A a \in DOMAIN attempts :
                 RetryEligible(attempts[a], WorkerMaxAttempts)
                     => \E k \in DOMAIN queue' : queue'[k].id = a
       /\ (pc = "retry" /\ queue # <<>> /\ queue' = Tail(queue)) =>
             /\ NewAttempts # {}
                    <=> RetryEligible(attempts[Head(queue).id], WorkerMaxAttempts)
             /\ \A b \in NewAttempts :
                    attempts'[b].subscription_id = Head(queue).subscription_id]_vars

\* A turn of RetryFailedBilling's loop: the row it is about is Head(queue)
RetryTurn == pc = "retry" /\ queue # <<>> /\ queue' = Tail(queue)

\* C31: every attempt RetryFailedBilling creates has status pending, the failed
\* attempt's ordinal + 1, and the failed attempt's subscription, amount and
\* currency; and the number it returns is the number of attempts it created.
C31_RetryAttemptCopiesFailed ==
    [][/\ (pc = "pending" /\ pc' = "retry") => count' = 0 /\ NewAttempts = {}
       /\ RetryTurn =>
             /\ count' = count + Cardinality(NewAttempts)
             /\ \A b \in NewAttempts :
                    /\ attempts'[b].status = "pending"
                    /\ attempts'[b].attempt_number = Head(queue).attempt_number + 1
                    /\ attempts'[b].subscription_id = Head(queue).subscription_id
                    /\ attempts'[b].amount = Head(queue).amount
                    /\ attempts'[b].currency = Head(queue).currency]_vars

\* RetryFailedBilling has created the retry of a failed second attempt
C31_SecondRetryCreated ==
    /\ pc = "retry"
    /\ count > 0
    /\ \E b \in DOMAIN attempts :
          /\ attempts[b].status = "pending"
          /\ attempts[b].attempt_number = 3
          /\ attempts[b].scheduled_at = AddHours(now, 72)

CanceledInFlight ==
    /\ pc \in {"due", "pending"}
    /\ queue # <<>>
    /\ queue' = Tail(queue)
    /\ ~ctxDone /\ ctxDone'

\* C33: when the shared context is canceled while a billing cycle is in
\* progress, the item whose gateway call is in flight is completed: its attempt
\* is stored as succeeded or failed and, when the due path's charge is approved,
\* its subscription is advanced; and once the context is canceled no item or
\* task of the cycle gets a charge from the gateway.
C33_InFlightItemCompleted ==
    [][/\ CanceledInFlight =>
             /\ pc = "due" =>
                   /\ \A b \in NewAttempts :
                          attempts'[b].status \in {"succeeded", "failed"}
                   /\ NewCharges # {} =>
                          subs'[Head(queue).id] = AdvanceSubscription(Head(queue))
             /\ pc = "pending" =>
                   attempts'[Head(queue).id].status \in {"succeeded", "failed"}
       /\ ctxDone => NewCharges = {}]_vars

\* A goroutine of the worker is in its Start loop
StartLoopRunning == \E k \in DOMAIN tasks : tasks[k] # "returned"

\* C34: GetWorkerStatus has one entry per registered worker, under the worker's
\* key, and an entry says running only while the worker's Start loop is running:
\* not before StartAll, and not after StopAll.
C34_StatusIsActualState ==
    /\ DOMAIN GetWorkerStatus = {"worker_0"}
    /\ \A key \in DOMAIN GetWorkerStatus :
          GetWorkerStatus[key].status = "running" => StartLoopRunning

\* C35: no gateway charge is approved for a subscription whose stored status
\* is canceled at the moment of the charge, in the due path and in the
\* pending-attempt path.
C35_NoChargeOfCanceled ==
    [][\A k \in NewCharges : subs[ledger'[k].sub].status # "canceled"]_vars

\* C36: a step of the billing engine leaves a stored status canceled as it is,
\* and a stored cancel_at_period_end = true as it is.
C36_CancellationStays ==
    [][BillingStep =>
          \A i \in DOMAIN subs :
              /\ subs[i].status = "canceled" => subs'[i].status = "canceled"
              /\ subs[i].cancel_at_period_end => subs'[i].cancel_at_period_end]_vars

\* The due path has a failed attempt for the billing boundary of the row
FailedInDuePath(row) ==
    \E a \in DOMAIN attempts :
        /\ attempts[a].subscription_id = row.id
        /\ attempts[a].attempt_number = 1
        /\ attempts[a].status = "failed"
        /\ attempts[a].cycle = row.next_billing_at

\* C37: ProcessDueSubscriptions does not select a subscription whose due-path
\* attempt for the same next_billing_at has failed (decline, transport error
\* or card not found), whether the subscription is active or trialing.
C37_FailedNotSelectedAgain ==
    [][(pc = "idle" /\ pc' = "due") =>
          \A k \in DOMAIN queue' : ~FailedInDuePath(queue'[k])]_vars

\* C38: in every state, a subscription with status trialing has had no approved
\* charge.
C38_TrialingNeverCharged ==
    \A i \in DOMAIN subs :
        subs[i].status = "trialing" => ~\E k \in DOMAIN ledger : ledger[k].sub = i

\* C39: no step of the billing engine changes the stored card of a
\* subscription: after a card swap the stored card is the new card until the
\* next swap.
C39_EngineKeepsCard ==
    [][BillingStep =>
          \A i \in DOMAIN subs : subs'[i].card_id = subs[i].card_id]_vars

\* C40: StopAll and Stop can be called again on the same manager and worker: the
\* second call does nothing, and no call panics.
C40_RepeatedStopIsNoOp == restartPc # "panicked"

\* Spec reaches the stores of Resumed, and SpecUsers reaches them with the users'
\* requests still to come
ResumedIsReached == Resumed /\ capacity = MaxAttempts

ResumedUsersIsReached ==
    ResumedStores /\ faultsLeft = 0 /\ opsLeft = MaxUserOps /\ capacity = MaxAttempts

====
